---- MODULE Spec2Model ----
(***************************************************************************)
(* Model of boto3_utils/dynamo.py: the back_off_and_jitter retry wrapper,  *)
(* the paginated readers scan_with_back_off_and_jitter and                 *)
(* query_with_back_off_and_jitter, and BatchWriterWithBackOffAndJitter.    *)
(***************************************************************************)
EXTENDS Integers, Sequences, FiniteSets, TLC

(***************************************************************************)
(* back_off_and_jitter (dynamo.py:11-41)                                   *)
(***************************************************************************)

\* dynamo.py:17  back_off = 1
initial_back_off == 1
\* dynamo.py:18  cap = 60
cap == 60
\* dynamo.py:19  base = 1
base == 1
\* dynamo.py:20  nr_of_retries = 10
nr_of_retries == 10

Min(a, b) == IF a < b THEN a ELSE b

\* The error code the wrapper retries on (dynamo.py:30).
PTEE == "ProvisionedThroughputExceededException"

\* What a call of the wrapped function can raise: a ClientError whose
\* response carries a code, a ClientError without one, or another exception.
Errors ==
    { [client |-> TRUE,  code |-> PTEE],
      [client |-> TRUE,  code |-> "ValidationException"],
      [client |-> TRUE,  code |-> "None"],
      [client |-> FALSE, code |-> "None"] }

NoError == [client |-> FALSE, code |-> "ok"]

\* dynamo.py:27  except ClientError as error
Caught(e) == e.client

IsThroughputExceededAll(e) == TRUE
\* dynamo.py:28-30  error_code == 'ProvisionedThroughputExceededException'
IsThroughputExceeded(e) == e.code = PTEE

ExhaustedEarly(attempt) == attempt >= nr_of_retries
\* dynamo.py:31  if attempt > nr_of_retries: raise error
Exhausted(attempt) == attempt > nr_of_retries

\* dynamo.py:35  the values random.randint(0, min(cap, base * 2 ** attempt)) can return
Jitter(attempt) == 0 .. Min(cap, base * 2^attempt)

\* dynamo.py:17,22  the wrapper's locals when it is entered
WrapperStart == [attempt |-> 0, back_off |-> initial_back_off]

WrapperForCallKept(prev) == prev
\* dynamo.py:16-22  every call of a decorated function runs _back_off_and_jitter
\* anew: back_off and attempt start over, whatever an earlier call left
WrapperForCall(prev) == WrapperStart

\* dynamo.py:34  time.sleep(back_off)
SleepDuration(wr) == wr.back_off

AfterFailureAccumulated(wr, d) == [attempt |-> wr.attempt + 1, back_off |-> wr.back_off + d]
\* dynamo.py:35-36  back_off = <drawn value>; attempt += 1
AfterFailure(wr, d) == [attempt |-> wr.attempt + 1, back_off |-> d]

\* dynamo.py:27-39  does the wrapper re-raise error e at this attempt?
Reraises(wr, e) ==
    \/ ~Caught(e)
    \/ ~IsThroughputExceeded(e)
    \/ Exhausted(wr.attempt)

(***************************************************************************)
(* scan_with_back_off_and_jitter (dynamo.py:85-114) and                    *)
(* query_with_back_off_and_jitter (dynamo.py:122-149)                      *)
(***************************************************************************)

\* Bounds of the tables and requests explored.
MaxPages == 3
MaxPageSize == 2
MaxLimit == 4
MaxThrottle == 2

\* The reader invocations that can run against the one table handle.
Invocations == {1, 2}

Kinds == {"scan", "query"}

RECURSIVE SumSizes(_)
SumSizes(sizes) ==
    IF sizes = <<>> THEN 0 ELSE Head(sizes) + SumSizes(Tail(sizes))

\* A table whose pages hold sizes[1], sizes[2], ... items: the items are
\* numbered 1, 2, ... in store order, page i carries the continuation token i
\* and the last page carries none (0 stands for an absent LastEvaluatedKey).
Table(sizes) ==
    [i \in 1 .. Len(sizes) |->
        [Items |-> [j \in 1 .. sizes[i] |-> SumSizes(SubSeq(sizes, 1, i - 1)) + j],
         LastEvaluatedKey |-> IF i < Len(sizes) THEN i ELSE 0]]

Tables ==
    { Table(sizes) : sizes \in UNION { [1 .. n -> 0 .. MaxPageSize] : n \in 1 .. MaxPages } }

\* The request parameters a caller passes: no Limit, or a Limit.
Requests ==
    { <<>> } \cup { [k \in {"Limit"} |-> l] : l \in -1 .. MaxLimit }

\* dynamo.py:82,119  table.scan(**kwargs) / table.query(**kwargs): the page
\* that follows the ExclusiveStartKey, the first page when there is none
FetchPage(tbl, kw) ==
    IF "ExclusiveStartKey" \in DOMAIN kw THEN kw["ExclusiveStartKey"] + 1 ELSE 1

\* dynamo.py:93,130  limit = kwargs.get('Limit', -1)
GetLimit(kw) == IF "Limit" \in DOMAIN kw THEN kw["Limit"] ELSE -1

CountAfterYieldStuck(kind, limit, counter) == counter
\* dynamo.py:105-106 (scan), 141 (query)  the item counter after a yield
CountAfterYield(kind, limit, counter) ==
    IF kind = "scan"
    THEN (IF limit > 0 THEN counter + 1 ELSE counter)
    ELSE counter + 1

StopsAfterYieldLate(kind, limit, counter) ==
    limit > 0 /\ CountAfterYield(kind, limit, counter) > limit
\* dynamo.py:105-108 (scan), 142-143 (query)  is StopIteration raised after a yield?
StopsAfterYield(kind, limit, counter) ==
    IF kind = "scan"
    THEN limit > 0 /\ limit # 0 /\ CountAfterYield(kind, limit, counter) >= limit
    ELSE limit # 0 /\ CountAfterYield(kind, limit, counter) >= limit

\* dynamo.py:110-111, 145-146  last_evaluated_key = response.get('LastEvaluatedKey')
HasMore(page) == page.LastEvaluatedKey # 0

WithStartKeyKept(kw, key) ==
    IF "ExclusiveStartKey" \in DOMAIN kw
    THEN kw
    ELSE [k \in DOMAIN kw \cup {"ExclusiveStartKey"} |->
             IF k = "ExclusiveStartKey" THEN key ELSE kw[k]]
\* dynamo.py:114,149  kwargs.update(ExclusiveStartKey=last_evaluated_key)
WithStartKey(kw, key) ==
    [k \in DOMAIN kw \cup {"ExclusiveStartKey"} |->
        IF k = "ExclusiveStartKey" THEN key ELSE kw[k]]

\* The start key a request carries (0: none).
StartKeyOf(kw) == IF "ExclusiveStartKey" \in DOMAIN kw THEN kw["ExclusiveStartKey"] ELSE 0

\* How raise StopIteration inside a generator ends the iteration: silently
\* before PEP 479, as a RuntimeError from Python 3.7 on.
StopOutcomes == {"stop", "RuntimeError"}

(***************************************************************************)
(* BatchWriterWithBackOffAndJitter (dynamo.py:44-77)                       *)
(***************************************************************************)

\* Bounds of the writer runs explored.
MaxItems == 5
MaxFlushAmount == 3
MaxPartial == 2
MaxWriteThrottle == 2

\* dynamo.py:52  flush_amount=25
default_flush_amount == 25

Range(seq) == { seq[i] : i \in DOMAIN seq }

\* The items of seq that are in S, in seq's order.
Restrict(seq, S) == SelectSeq(seq, LAMBDA x : x \in S)

\* self._items_buffer[:self._flush_amount]
FirstN(seq, n) == SubSeq(seq, 1, Min(n, Len(seq)))

\* self._items_buffer[self._flush_amount:]
DropN(seq, n) == SubSeq(seq, Min(n, Len(seq)) + 1, Len(seq))

AfterBatchWriteDropped(buf, n, back) == DropN(buf, n)
\* dynamo.py:77  BatchWriter._flush: the items sent leave the buffer and the
\* UnprocessedItems of the response are appended to it again
AfterBatchWrite(buf, n, back) == DropN(buf, n) \o back

BatchWriterInitDefault(flush_amount) ==
    [items_buffer |-> <<>>, flush_amount |-> default_flush_amount, pc |-> "idle",
     caller |-> "none", branch |-> "none", reps |-> 0, wrap |-> WrapperStart,
     inv |-> 0, result |-> "none", flushed |-> FALSE]
\* dynamo.py:52-58  __init__ hands flush_amount to BatchWriter.__init__, which
\* starts with an empty _items_buffer
BatchWriterInit(flush_amount) ==
    [items_buffer |-> <<>>, flush_amount |-> flush_amount, pc |-> "idle",
     caller |-> "none", branch |-> "none", reps |-> 0, wrap |-> WrapperStart,
     inv |-> 0, result |-> "none", flushed |-> FALSE]

\* dynamo.py:62-63  int(len(self._items_buffer) / self._flush_amount)
Repetitions(buf, amount) == Len(buf) \div amount

\* dynamo.py:70  while self._items_buffer  (flush last records)
LastRecordsPending(buf) == buf # <<>>

\* dynamo.py:76  while self._items_buffer, tested when the wrapped function is entered
FunctionEnters(buf) == buf # <<>>

FunctionLoopsOnce(buf) == FALSE
\* dynamo.py:76  while self._items_buffer, tested after a BatchWriter._flush
FunctionLoops(buf) == buf # <<>>

FlushNeededLate(buf, amount) == Len(buf) > amount
\* BatchWriter._flush_if_needed: len(self._items_buffer) >= self._flush_amount
FlushNeeded(buf, amount) == Len(buf) >= amount

\* dynamo.py:61-77 and BatchWriter.__exit__: where control goes, up to the next
\* batch_write_item call or the return to the caller.
\*   InvokeWrapped: _flush calls _flush_with_back_off_and_jitter (67, 71)
\*   FunctionReturned: that call returned; the for / while loop of _flush goes on
\*   FlushReturned: _flush returned to put_item or to __exit__'s loop
\*   EnterFlush: _flush is entered (62-71)
RECURSIVE InvokeWrapped(_), FunctionReturned(_), FlushReturned(_), EnterFlush(_)

InvokeWrapped(b) ==
    LET b1 == [b EXCEPT !.wrap = WrapperForCall(b.wrap), !.inv = @ + 1] IN
    IF FunctionEnters(b1.items_buffer)
    THEN [b1 EXCEPT !.pc = "call"]
    ELSE FunctionReturned(b1)

FunctionReturned(b) ==
    IF b.branch = "for"
    THEN (IF b.reps > 0
          THEN InvokeWrapped([b EXCEPT !.reps = @ - 1])
          ELSE FlushReturned(b))
    ELSE (IF LastRecordsPending(b.items_buffer)
          THEN InvokeWrapped(b)
          ELSE FlushReturned(b))

FlushReturned(b) ==
    IF b.caller = "put_item"
    THEN [b EXCEPT !.pc = "idle", !.result = "ok", !.flushed = TRUE]
    ELSE (IF b.items_buffer # <<>>
          THEN EnterFlush(b)
          ELSE [b EXCEPT !.pc = "closed", !.result = "ok", !.flushed = TRUE])

EnterFlush(b) ==
    IF Repetitions(b.items_buffer, b.flush_amount) > 0
    THEN FunctionReturned([b EXCEPT !.branch = "for",
                                    !.reps = Repetitions(b.items_buffer, b.flush_amount)])
    ELSE FunctionReturned([b EXCEPT !.branch = "while", !.reps = 0])

\* dynamo.py:32,39  the wrapper re-raises: the failure leaves _flush and reaches
\* the caller of put_item, or of __exit__
RaisedToCaller(b) ==
    [b EXCEPT !.pc = IF b.caller = "put_item" THEN "idle" ELSE "closed",
              !.result = "raised", !.flushed = TRUE]

VARIABLES
    w,            \* locals of the running _back_off_and_jitter: attempt, back_off
    rstatus,      \* "running" | "returned" | "raised"
    calls,        \* calls of the wrapped function made so far
    ptee,         \* how many of them failed with throughput-exceeded
    sleeps,       \* time.sleep calls made so far
    lastSleep,    \* duration of the latest sleep
    lastSleepN,   \* the attempt number whose failure that sleep followed
    lastOutcome,  \* the outcome of the latest call (NoError: it returned)
    pages,        \* the table: the page responses scan/query return, in store order
    throttle,     \* throughput-exceeded failures the store may still answer with
    rd,           \* per reader invocation: the generator's locals and position
    bw,           \* the batch writer: _items_buffer, _flush_amount, where _flush stands
    wh,           \* what was added to the writer and what reached batch_write_item
    wfaults       \* failures and partial answers the store may still give

retryVars == <<w, rstatus, calls, ptee, sleeps, lastSleep, lastSleepN, lastOutcome>>
readerVars == <<pages, throttle, rd>>

writerVars == <<bw, wh, wfaults>>

vars == <<retryVars, readerVars, writerVars>>

\* The wrapper around an arbitrary operation is not in use.
RetryIdle ==
    /\ w = WrapperStart
    /\ rstatus = "idle"
    /\ calls = 0
    /\ ptee = 0
    /\ sleeps = 0
    /\ lastSleep = 0
    /\ lastSleepN = 0
    /\ lastOutcome = NoError

(***************************************************************************)
(* The writer's state machine                                              *)
(***************************************************************************)

WriterIdle ==
    /\ bw = BatchWriterInit(default_flush_amount)
    /\ wh = [configured |-> default_flush_amount, added |-> 0, sent |-> <<>>,
             acked |-> {}, raised |-> 0]
    /\ wfaults = [throttle |-> 0, partial |-> 0]

\* BatchWriter.put_item -> _add_request_and_process: append, then
\* _flush_if_needed, which calls the overridden _flush (dynamo.py:61)
PutItem ==
    /\ bw.pc = "idle"
    /\ wh.added < MaxItems
    /\ LET item == wh.added + 1
           b1 == [bw EXCEPT !.items_buffer = Append(@, item), !.caller = "put_item"]
       IN /\ bw' = IF FlushNeeded(b1.items_buffer, b1.flush_amount)
                   THEN EnterFlush(b1)
                   ELSE [b1 EXCEPT !.result = "ok", !.flushed = FALSE]
          /\ wh' = [wh EXCEPT !.added = item]
    /\ UNCHANGED wfaults

\* BatchWriter.__exit__: while self._items_buffer: self._flush()
Exit ==
    /\ bw.pc = "idle"
    /\ bw' = FlushReturned([bw EXCEPT !.caller = "exit"])
    /\ UNCHANGED <<wh, wfaults>>

\* dynamo.py:77  BatchWriter._flush: the first flush_amount items leave the
\* buffer, batch_write_item takes them all
StoreAccepts ==
    /\ bw.pc = "call"
    /\ LET items == FirstN(bw.items_buffer, bw.flush_amount)
           b1 == [bw EXCEPT !.items_buffer = AfterBatchWrite(@, bw.flush_amount, <<>>)]
       IN /\ bw' = IF FunctionLoops(b1.items_buffer) THEN b1 ELSE FunctionReturned(b1)
          /\ wh' = [wh EXCEPT !.sent = Append(@, [items |-> items, inv |-> bw.inv,
                                                  unprocessed |-> <<>>, error |-> NoError]),
                              !.acked = @ \cup Range(items)]
    /\ UNCHANGED wfaults

\* dynamo.py:77  BatchWriter._flush: batch_write_item hands some of the items
\* back as UnprocessedItems; they are appended to the buffer again
StoreAcceptsPart ==
    /\ bw.pc = "call"
    /\ wfaults.partial > 0
    /\ LET items == FirstN(bw.items_buffer, bw.flush_amount) IN
       \E U \in (SUBSET Range(items)) \ {{}} :
          LET back == Restrict(items, U)
              b1 == [bw EXCEPT !.items_buffer = AfterBatchWrite(@, bw.flush_amount, back)]
          IN /\ bw' = IF FunctionLoops(b1.items_buffer) THEN b1 ELSE FunctionReturned(b1)
             /\ wh' = [wh EXCEPT !.sent = Append(@, [items |-> items, inv |-> bw.inv,
                                                     unprocessed |-> back, error |-> NoError]),
                                 !.acked = @ \cup (Range(items) \ U)]
    /\ wfaults' = [wfaults EXCEPT !.partial = @ - 1]

\* dynamo.py:27-36, 77  batch_write_item raises throughput-exceeded after
\* BatchWriter._flush cut the items from the buffer; the wrapper sleeps and
\* calls the wrapped function again
StoreThrottles ==
    /\ bw.pc = "call"
    /\ wfaults.throttle > 0
    /\ \E e \in Errors :
        /\ e.code = PTEE
        /\ ~Reraises(bw.wrap, e)
        /\ \E d \in Jitter(bw.wrap.attempt) :
            LET items == FirstN(bw.items_buffer, bw.flush_amount)
                b1 == [bw EXCEPT !.items_buffer = DropN(@, bw.flush_amount),
                                 !.wrap = AfterFailure(@, d)]
            IN /\ bw' = IF FunctionEnters(b1.items_buffer) THEN b1 ELSE FunctionReturned(b1)
               /\ wh' = [wh EXCEPT !.sent = Append(@, [items |-> items, inv |-> bw.inv,
                                                       unprocessed |-> <<>>, error |-> e])]
    /\ wfaults' = [wfaults EXCEPT !.throttle = @ - 1]

\* dynamo.py:27-39, 77  batch_write_item raises and the wrapper re-raises
StoreFails ==
    /\ bw.pc = "call"
    /\ \E e \in Errors :
        /\ e.code = PTEE => wfaults.throttle > 0
        /\ Reraises(bw.wrap, e)
        /\ LET items == FirstN(bw.items_buffer, bw.flush_amount)
               b1 == [bw EXCEPT !.items_buffer = DropN(@, bw.flush_amount)]
           IN /\ bw' = RaisedToCaller(b1)
              /\ wh' = [wh EXCEPT !.sent = Append(@, [items |-> items, inv |-> bw.inv,
                                                      unprocessed |-> <<>>, error |-> e]),
                                  !.raised = @ + 1]
        /\ wfaults' = IF e.code = PTEE THEN [wfaults EXCEPT !.throttle = @ - 1] ELSE wfaults

WriterNext ==
    \/ PutItem /\ UNCHANGED <<retryVars, readerVars>>
    \/ Exit /\ UNCHANGED <<retryVars, readerVars>>
    \/ StoreAccepts /\ UNCHANGED <<retryVars, readerVars>>
    \/ StoreAcceptsPart /\ UNCHANGED <<retryVars, readerVars>>
    \/ StoreThrottles /\ UNCHANGED <<retryVars, readerVars>>
    \/ StoreFails /\ UNCHANGED <<retryVars, readerVars>>

\* A writer constructed with any flush_amount, over a store that may throttle
\* and may hand items back.
WriterInit ==
    /\ \E amount \in 1 .. MaxFlushAmount :
        /\ bw = BatchWriterInit(amount)
        /\ wh = [configured |-> amount, added |-> 0, sent |-> <<>>,
                 acked |-> {}, raised |-> 0]
    /\ wfaults = [throttle |-> MaxWriteThrottle, partial |-> MaxPartial]

(***************************************************************************)
(* The readers' state machine                                              *)
(***************************************************************************)

\* A generator object that was never created.
Absent ==
    [kind |-> "scan", kwargs |-> <<>>, gpc |-> "absent", limit |-> 0,
     item_counter |-> 0, response |-> 0, idx |-> 0, wrap |-> WrapperStart,
     produced |-> <<>>, fetchLog |-> <<>>, ending |-> "none", failure |-> NoError,
     fetchFails |-> 0, absorbed |-> "none"]

\* A generator object just created by calling the reader: none of its body has run.
Created(kind, kw) == [Absent EXCEPT !.kind = kind, !.kwargs = kw, !.gpc = "created"]

ReaderIdle ==
    /\ pages = <<>>
    /\ throttle = 0
    /\ rd = [r \in Invocations |-> Absent]

\* One reader invocation over any table and any request.
ReaderInit ==
    /\ pages \in Tables
    /\ throttle = MaxThrottle
    /\ \E kind \in Kinds, kw \in Requests :
          rd = [r \in Invocations |-> IF r = 1 THEN Created(kind, kw) ELSE Absent]

\* dynamo.py:102-114, 139-149  the for loop reaches position i of the page held
\* in g.response: it yields item i, or the page is exhausted and the reader
\* breaks out (no continuation token) or asks for the next page.
LoopFrom(g, i) ==
    LET page == pages[g.response] IN
    IF i <= Len(page.Items)
    THEN [g EXCEPT !.idx = i, !.gpc = "yielded",
                   !.produced = Append(g.produced, page.Items[i])]
    ELSE IF HasMore(page)
    THEN [g EXCEPT !.idx = i, !.gpc = "fetch", !.wrap = WrapperForCall(g.wrap),
                   !.kwargs = WithStartKey(g.kwargs, page.LastEvaluatedKey)]
    ELSE [g EXCEPT !.idx = i, !.gpc = "done", !.ending = "exhausted"]

\* dynamo.py:92-97, 129-134  the body runs from its start up to the first fetch
Started(g) ==
    [g EXCEPT !.item_counter = 0,
              !.limit = GetLimit(g.kwargs),
              !.wrap = WrapperForCall(g.wrap),
              !.gpc = "fetch"]

\* dynamo.py:25-36  what the wrappers of the fetches completed so far,
\* including the one that returns now, have absorbed: "none" no failure,
\* "budget" each of them the nr_of_retries + 1 failures a wrapper can absorb,
\* "some" anything else
Absorbed(g) ==
    LET now == IF g.fetchFails = 0 THEN "none"
               ELSE IF g.fetchFails = nr_of_retries + 1 THEN "budget"
               ELSE "some"
    IN IF g.fetchLog = <<>> \/ g.absorbed = now THEN now ELSE "some"

\* dynamo.py:25-26, 97, 102-114  the fetch returns a page; the for loop starts
Fetched(g) ==
    LoopFrom([g EXCEPT !.response = FetchPage(pages, g.kwargs),
                       !.fetchLog = Append(@, StartKeyOf(g.kwargs)),
                       !.absorbed = Absorbed(g),
                       !.fetchFails = 0], 1)

\* dynamo.py:34-36  the fetch raised throughput-exceeded: d is the value drawn
Throttled(g, d) ==
    [g EXCEPT !.wrap = AfterFailure(@, d), !.fetchFails = @ + 1]

OnFetchErrorSwallowed(g, e) ==
    [g EXCEPT !.gpc = "done", !.ending = "exhausted", !.failure = e,
              !.fetchFails = IF e.code = PTEE THEN @ + 1 ELSE @]
\* dynamo.py:32,39, 98-100, 135-137  the wrapper re-raises e, the reader
\* re-raises it, the generator is finished
OnFetchError(g, e) ==
    [g EXCEPT !.gpc = "done", !.ending = "error", !.failure = e,
              !.fetchFails = IF e.code = PTEE THEN @ + 1 ELSE @]

\* dynamo.py:106-108, 141-143  the limit check raises StopIteration
Stopped(g, how) ==
    [g EXCEPT !.item_counter = CountAfterYield(g.kind, g.limit, g.item_counter),
              !.gpc = "done", !.ending = how]

\* dynamo.py:102-114, 139-149  the limit check passes and the loop goes on
Continued(g) ==
    LoopFrom([g EXCEPT !.item_counter = CountAfterYield(g.kind, g.limit, g.item_counter)],
             g.idx + 1)

CommitSharedKwargs(all, r, g) ==
    [x \in DOMAIN all |->
        IF x = r THEN g
        ELSE IF all[x].gpc = "absent" \/ "ExclusiveStartKey" \notin DOMAIN g.kwargs
        THEN all[x]
        ELSE [all[x] EXCEPT !.kwargs = WithStartKey(@, g.kwargs["ExclusiveStartKey"])]]
\* dynamo.py:85, 92-93, 122, 129-130  kwargs, item_counter, limit and response
\* are locals of the one generator: a step of invocation r changes only its own
Commit(all, r, g) == [all EXCEPT ![r] = g]

\* May the store still answer a fetch with throughput-exceeded? (a negative
\* count: without bound)
CanThrottle(t) == t # 0

Spend(t) == IF t < 0 THEN t ELSE t - 1

\* dynamo.py:92-97, 129-134  the consumer's first next(): the body runs up to
\* the first fetch
ReaderStart(r) ==
    /\ rd[r].gpc = "created"
    /\ rd' = Commit(rd, r, Started(rd[r]))
    /\ UNCHANGED <<pages, throttle>>

\* dynamo.py:25-26, 97, 102-114  the fetch returns a page; the for loop starts
FetchReturns(r) ==
    /\ rd[r].gpc = "fetch"
    /\ rd' = Commit(rd, r, Fetched(rd[r]))
    /\ UNCHANGED <<pages, throttle>>

\* dynamo.py:27-36  the fetch raises throughput-exceeded and is retried
FetchBackOff(r) ==
    /\ rd[r].gpc = "fetch"
    /\ CanThrottle(throttle)
    /\ \E e \in Errors :
        /\ e.code = PTEE
        /\ ~Reraises(rd[r].wrap, e)
        /\ \E d \in Jitter(rd[r].wrap.attempt) :
              rd' = Commit(rd, r, Throttled(rd[r], d))
    /\ throttle' = Spend(throttle)
    /\ UNCHANGED pages

\* dynamo.py:27-39, 98-100  the fetch raises and the failure reaches the consumer
FetchRaises(r) ==
    /\ rd[r].gpc = "fetch"
    /\ \E e \in Errors :
        /\ e.code = PTEE => CanThrottle(throttle)
        /\ Reraises(rd[r].wrap, e)
        /\ rd' = Commit(rd, r, OnFetchError(rd[r], e))
        /\ throttle' = IF e.code = PTEE THEN Spend(throttle) ELSE throttle
    /\ UNCHANGED pages

\* dynamo.py:103-108, 140-143  the consumer's next() after a yield: the limit
\* check stops the generator
ResumeStops(r) ==
    /\ rd[r].gpc = "yielded"
    /\ StopsAfterYield(rd[r].kind, rd[r].limit, rd[r].item_counter)
    /\ \E how \in StopOutcomes : rd' = Commit(rd, r, Stopped(rd[r], how))
    /\ UNCHANGED <<pages, throttle>>

\* dynamo.py:102-114, 139-149  the consumer's next() after a yield: the loop goes on
ResumeContinues(r) ==
    /\ rd[r].gpc = "yielded"
    /\ ~StopsAfterYield(rd[r].kind, rd[r].limit, rd[r].item_counter)
    /\ rd' = Commit(rd, r, Continued(rd[r]))
    /\ UNCHANGED <<pages, throttle>>

ReaderNext ==
    \/ \E r \in Invocations : ReaderStart(r) /\ UNCHANGED <<retryVars, writerVars>>
    \/ \E r \in Invocations : FetchReturns(r) /\ UNCHANGED <<retryVars, writerVars>>
    \/ \E r \in Invocations : FetchBackOff(r) /\ UNCHANGED <<retryVars, writerVars>>
    \/ \E r \in Invocations : FetchRaises(r) /\ UNCHANGED <<retryVars, writerVars>>
    \/ \E r \in Invocations : ResumeStops(r) /\ UNCHANGED <<retryVars, writerVars>>
    \/ \E r \in Invocations : ResumeContinues(r) /\ UNCHANGED <<retryVars, writerVars>>

InitReader == RetryIdle /\ ReaderInit /\ WriterIdle

SpecReader == InitReader /\ [][ReaderNext]_vars

\* The tables of at most FewPages pages, all pages of a table equally full.
FewPages == 2

SmallTables ==
    {Table([i \in 1 .. n |-> size]) : n \in 1 .. FewPages, size \in 1 .. MaxPageSize}

\* Two reader invocations alive at once, their steps interleaved in any order
\* by the consumer.
ConcThrottle == 1

\* The requests of the second invocation: unbounded, stopping at the first
\* item, stopping late.
ConcRequests == {<<>>, [Limit |-> 1], [Limit |-> MaxLimit]}

ConcurrentInit ==
    /\ pages \in SmallTables
    /\ throttle = ConcThrottle
    /\ \E k1 \in Kinds, k2 \in Kinds, kw1 \in Requests, kw2 \in ConcRequests :
          rd = [r \in Invocations |-> IF r = 1 THEN Created(k1, kw1) ELSE Created(k2, kw2)]

InitConcurrent == RetryIdle /\ ConcurrentInit /\ WriterIdle

SpecConcurrent == InitConcurrent /\ [][ReaderNext]_vars

\* One reader invocation against a store that may answer any fetch with
\* throughput-exceeded, any number of times.
Unlimited == 0 - 1

RetryRequests == {<<>>, [Limit |-> MaxLimit]}

ReaderRetryInit ==
    /\ pages \in SmallTables
    /\ throttle = Unlimited
    /\ \E kind \in Kinds, kw \in RetryRequests :
          rd = [r \in Invocations |-> IF r = 1 THEN Created(kind, kw) ELSE Absent]

InitReaderRetry == RetryIdle /\ ReaderRetryInit /\ WriterIdle

SpecReaderRetry == InitReaderRetry /\ [][ReaderNext]_vars

InitWriter == RetryIdle /\ ReaderIdle /\ WriterInit

SpecWriter == InitWriter /\ [][WriterNext]_vars

\* A writer over a store that never raises but may hand items back; a
\* batch_write_item call that can take its whole batch eventually does.
PartialInit ==
    /\ \E amount \in 1 .. MaxFlushAmount :
        /\ bw = BatchWriterInit(amount)
        /\ wh = [configured |-> amount, added |-> 0, sent |-> <<>>,
                 acked |-> {}, raised |-> 0]
    /\ wfaults = [throttle |-> 0, partial |-> MaxPartial]

InitPartial == RetryIdle /\ ReaderIdle /\ PartialInit

PartialNext ==
    \/ PutItem /\ UNCHANGED <<retryVars, readerVars>>
    \/ Exit /\ UNCHANGED <<retryVars, readerVars>>
    \/ StoreAccepts /\ UNCHANGED <<retryVars, readerVars>>
    \/ StoreAcceptsPart /\ UNCHANGED <<retryVars, readerVars>>

SpecPartial ==
    /\ InitPartial
    /\ [][PartialNext]_vars
    /\ WF_vars(StoreAccepts /\ UNCHANGED <<retryVars, readerVars>>)

(***************************************************************************)
(* The retry wrapper around an arbitrary operation                         *)
(***************************************************************************)

RetryInit ==
    /\ w = WrapperStart
    /\ rstatus = "running"
    /\ calls = 0
    /\ ptee = 0
    /\ sleeps = 0
    /\ lastSleep = 0
    /\ lastSleepN = 0
    /\ lastOutcome = NoError

\* dynamo.py:25-26  the call returns: the wrapper returns its result
RetrySuccess ==
    /\ rstatus = "running"
    /\ calls' = calls + 1
    /\ lastOutcome' = NoError
    /\ rstatus' = "returned"
    /\ UNCHANGED <<w, ptee, sleeps, lastSleep, lastSleepN>>
    /\ UNCHANGED <<readerVars, writerVars>>

\* dynamo.py:27-39  the call raises and the wrapper re-raises
RetryRaise ==
    /\ rstatus = "running"
    /\ \E e \in Errors :
        /\ Reraises(w, e)
        /\ calls' = calls + 1
        /\ ptee' = IF e.code = PTEE THEN ptee + 1 ELSE ptee
        /\ lastOutcome' = e
        /\ rstatus' = "raised"
    /\ UNCHANGED <<w, sleeps, lastSleep, lastSleepN>>
    /\ UNCHANGED <<readerVars, writerVars>>

\* dynamo.py:30-36  the call raises throughput-exceeded: sleep, redraw, loop
RetryBackOff ==
    /\ rstatus = "running"
    /\ \E e \in Errors :
        /\ ~Reraises(w, e)
        /\ calls' = calls + 1
        /\ ptee' = IF e.code = PTEE THEN ptee + 1 ELSE ptee
        /\ lastOutcome' = e
        /\ sleeps' = sleeps + 1
        /\ lastSleep' = SleepDuration(w)
        /\ lastSleepN' = w.attempt
        /\ \E d \in Jitter(w.attempt) : w' = AfterFailure(w, d)
    /\ UNCHANGED rstatus
    /\ UNCHANGED <<readerVars, writerVars>>

RetryNext == RetrySuccess \/ RetryRaise \/ RetryBackOff

InitRetry == RetryInit /\ ReaderIdle /\ WriterIdle

SpecRetry == InitRetry /\ [][RetryNext]_vars

(***************************************************************************)
(* Claims about the retry wrapper, checked under SpecRetry                 *)
(***************************************************************************)

\* C1: an operation that fails with ProvisionedThroughputExceededException on
\* every call is attempted exactly nr_of_retries + 2 = 12 times and then the
\* failure propagates: while every call so far has failed that way and fewer
\* than 12 calls were made the wrapper is still running, at the 12th such
\* failure it has raised that error, and no 13th call is ever made.
C1_ExactlyKPlusTwoAttempts ==
    /\ calls <= 12
    /\ (ptee = calls /\ calls < 12) => rstatus = "running"
    /\ (ptee = calls /\ calls = 12) => (rstatus = "raised" /\ lastOutcome.code = PTEE)
    /\ (rstatus = "raised" /\ lastOutcome.code = PTEE) => calls = 12

C1_Witness == rstatus = "raised" /\ lastOutcome.code = PTEE /\ ptee = 12 /\ calls = 12

\* C2: a call that fails with a failure other than throughput-exceeded (a
\* ClientError with another code or none, or a non-ClientError), at whatever
\* attempt, makes the wrapper raise that failure in the same step without
\* sleeping; once the wrapper has raised, no call and no sleep follows.
C2_NonRetryableRaisesImmediately ==
    [][ /\ (calls' = calls + 1 /\ lastOutcome' \in Errors /\ lastOutcome'.code # PTEE)
            => (rstatus' = "raised" /\ sleeps' = sleeps)
        /\ (calls = 0 /\ calls' = 1 /\ rstatus' = "raised") => sleeps' = 0
        /\ rstatus = "raised" => (calls' = calls /\ sleeps' = sleeps) ]_vars

C2_Witness ==
    /\ rstatus = "raised"
    /\ lastOutcome = [client |-> TRUE, code |-> "ValidationException"]
    /\ calls = 4
    /\ sleeps = 3

\* C3: the sleep that follows failed attempt number n lasts an integer number
\* of seconds in [0, min(60, 1 * 2^n)]; no sleep exceeds the cap of 60, and
\* the value kept for the next sleep is a fresh draw, itself at most 60.
C3_SleepWithinJitterBound ==
    /\ sleeps > 0 =>
          /\ lastSleep \in Int
          /\ 0 <= lastSleep
          /\ lastSleep <= (IF 1 * 2^lastSleepN < 60 THEN 1 * 2^lastSleepN ELSE 60)
    /\ w.back_off \in 0 .. 60

C3_Witness == sleeps > 0 /\ lastSleepN = 8 /\ lastSleep = 60 /\ rstatus = "running"

(***************************************************************************)
(* Claims about the readers, checked under SpecReader (invocation 1)       *)
(***************************************************************************)

\* The items of pages 1 .. i of the table, in store order.
RECURSIVE ItemsUpTo(_)
ItemsUpTo(i) == IF i = 0 THEN <<>> ELSE ItemsUpTo(i - 1) \o pages[i].Items

AllItems == ItemsUpTo(Len(pages))

\* The page that holds the n-th item of the table (n at most the item count).
PageOfItem(n) == CHOOSE i \in 1 .. Len(pages) :
                    Len(ItemsUpTo(i)) >= n /\ Len(ItemsUpTo(i - 1)) < n

\* The start keys of one fetch per page: none, then each page's token.
OneFetchPerPage(n) == [i \in 1 .. n |-> i - 1]

\* The reader ended without a fetch failure reaching the consumer.
EndedWithoutFailure(g) == g.gpc = "done" /\ g.ending # "error"

\* C4: with no Limit, or a negative one, a reader that ends without a fetch
\* failure has yielded every item of every page in store order and has made
\* exactly one successful fetch per page.
C4_UnboundedReadsEverything ==
    (EndedWithoutFailure(rd[1]) /\ GetLimit(rd[1].kwargs) < 0)
        => (rd[1].produced = AllItems /\ rd[1].fetchLog = OneFetchPerPage(Len(pages)))

\* C5: with Limit = L >= 1 a reader never produces more than L items, what it
\* has produced is always a prefix of the table in store order, and when it
\* ends without a fetch failure it has produced exactly the first
\* min(L, number of stored items) items.
C5_LimitBoundsItems ==
    LET g == rd[1]
        L == GetLimit(g.kwargs)
    IN  (g.gpc # "absent" /\ L >= 1) =>
          /\ Len(g.produced) <= L
          /\ Len(g.produced) <= Len(AllItems)
          /\ g.produced = SubSeq(AllItems, 1, Len(g.produced))
          /\ EndedWithoutFailure(g) =>
                g.produced = SubSeq(AllItems, 1, Min(L, Len(AllItems)))

\* The Limit-th item was the first item of a two-item page with more pages to come.
C5_Witness ==
    /\ EndedWithoutFailure(rd[1])
    /\ GetLimit(rd[1].kwargs) = 3
    /\ rd[1].produced = <<1, 2, 3>>
    /\ Len(pages) = 3
    /\ Len(pages[2].Items) = 2
    /\ Len(pages[1].Items) = 2

\* C6: once a reader with Limit = L >= 1 has produced its L-th item it is never
\* again at a fetch, and the fetches it has made are one per page up to the
\* page that holds the L-th item, whether or not that page carried a token.
C6_NoFetchAfterLimit ==
    LET g == rd[1]
        L == GetLimit(g.kwargs)
    IN  (L >= 1 /\ Len(g.produced) >= L) =>
          /\ g.gpc \in {"yielded", "done"}
          /\ g.fetchLog = OneFetchPerPage(PageOfItem(L))

\* Limit = 2 reached on the last item of page 1, which carries a token.
C6_Witness ==
    /\ rd[1].gpc = "done"
    /\ GetLimit(rd[1].kwargs) = 2
    /\ Len(rd[1].produced) = 2
    /\ Len(pages[1].Items) = 2
    /\ HasMore(pages[1])
    /\ Len(rd[1].fetchLog) = 1

\* C7: with Limit = 0 a reader produces no item.
C7_LimitZeroProducesNothing ==
    GetLimit(rd[1].kwargs) = 0 => rd[1].produced = <<>>

(***************************************************************************)
(* Claims about the writer, checked under SpecWriter                       *)
(***************************************************************************)

\* The items of the first k batch_write_item calls, in the order sent.
RECURSIVE SentItems(_)
SentItems(k) == IF k = 0 THEN <<>> ELSE SentItems(k - 1) \o wh.sent[k].items

\* The store took every item of every call so far and raised nothing.
AllAccepted ==
    \A k \in DOMAIN wh.sent :
        wh.sent[k].error = NoError /\ wh.sent[k].unprocessed = <<>>

\* C8: every write request added is still in the buffer, or was accepted by
\* the store in an acknowledged batch-write call, or a failure was raised to
\* the caller: no request is dropped silently, also when a call fails with
\* throughput-exceeded and is retried.
C8_NoWriteSilentlyDropped ==
    \A i \in 1 .. wh.added :
        \/ i \in Range(bw.items_buffer)
        \/ i \in wh.acked
        \/ wh.raised > 0

\* C9: when an operation that ran _flush (a put_item that reached
\* flush_amount, or the flush-all at scope exit) has returned successfully,
\* the buffer is empty, whatever the store handed back on the way.
C9_FlushLeavesBufferEmpty ==
    (bw.pc \in {"idle", "closed"} /\ bw.flushed /\ bw.result = "ok")
        => bw.items_buffer = <<>>

\* A flush-all that returned after the store handed part of a batch back.
C9_Witness ==
    /\ bw.pc = "closed"
    /\ bw.result = "ok"
    /\ bw.items_buffer = <<>>
    /\ wh.added = 3
    /\ wh.configured = 2
    /\ \E k \in DOMAIN wh.sent : Len(wh.sent[k].unprocessed) = 1 /\ wh.sent[k].inv = 2

\* C10: with flush_amount = F and a store that accepts every offered item,
\* adding N items and flushing all makes exactly ceil(N / F) batch-write
\* calls, each of at most F items and all but the last of exactly F, the
\* items going out in insertion order, and leaves the buffer empty.
C10_ChunkedFifoFlush ==
    LET F == wh.configured
        N == wh.added
        n == Len(wh.sent)
    IN  (bw.pc = "closed" /\ AllAccepted) =>
          /\ n = (N + F - 1) \div F
          /\ \A k \in 1 .. n : Len(wh.sent[k].items) <= F
          /\ \A k \in 1 .. n - 1 : Len(wh.sent[k].items) = F
          /\ SentItems(n) = [i \in 1 .. N |-> i]
          /\ bw.items_buffer = <<>>

\* flush_amount 2, five items: calls of sizes 2, 2, 1.
C10_Witness ==
    /\ bw.pc = "closed"
    /\ AllAccepted
    /\ wh.configured = 2
    /\ wh.added = 5
    /\ Len(wh.sent) = 3
    /\ wh.sent[3].items = <<5>>
    /\ bw.items_buffer = <<>>

\* C11: a batch-write call that fails with throughput-exceeded is retried and
\* its items are delivered: when the flush-all has returned successfully and no
\* failure was ever raised, every item of every throttled call was accepted by
\* the store; and an item the store accepted is never in the buffer again nor
\* part of a later batch-write call.
C11_ThrottledChunkDeliveredOnce ==
    /\ (bw.pc = "closed" /\ bw.result = "ok" /\ wh.raised = 0) =>
          \A k \in DOMAIN wh.sent :
              wh.sent[k].error.code = PTEE => Range(wh.sent[k].items) \subseteq wh.acked
    /\ wh.acked \cap Range(bw.items_buffer) = {}
    /\ \A k1, k2 \in DOMAIN wh.sent :
          (k1 < k2 /\ wh.sent[k1].error = NoError) =>
              (Range(wh.sent[k1].items) \ Range(wh.sent[k1].unprocessed))
                  \cap Range(wh.sent[k2].items) = {}

\* The part of C11 the code keeps: accepted items are never buffered or sent again.
AcceptedItemsNeverResent ==
    /\ wh.acked \cap Range(bw.items_buffer) = {}
    /\ \A k1, k2 \in DOMAIN wh.sent :
          (k1 < k2 /\ wh.sent[k1].error = NoError) =>
              (Range(wh.sent[k1].items) \ Range(wh.sent[k1].unprocessed))
                  \cap Range(wh.sent[k2].items) = {}

\* Between operations the buffer holds fewer than flush_amount items.
BufferBelowFlushAmount == bw.pc = "idle" => Len(bw.items_buffer) < bw.flush_amount

(***************************************************************************)
(* Reference run of one reader invocation on its own                       *)
(***************************************************************************)

IsPrefix(s, t) == Len(s) <= Len(t) /\ s = SubSeq(t, 1, Len(s))

\* The request a reader was called with: its kwargs without the start key the
\* reader itself puts there
CallerRequest(kw) == [k \in DOMAIN kw \ {"ExclusiveStartKey"} |-> kw[k]]

\* One step of an invocation that runs alone against a store that never fails
SoloStep(g) ==
    CASE g.gpc = "created" -> Started(g)
      [] g.gpc = "fetch" -> Fetched(g)
      [] g.gpc = "yielded" ->
            IF StopsAfterYield(g.kind, g.limit, g.item_counter)
            THEN Stopped(g, "stop")
            ELSE Continued(g)
      [] OTHER -> g

RECURSIVE SoloRun(_)
SoloRun(g) == IF g.gpc = "done" THEN g ELSE SoloRun(SoloStep(g))

\* C12: two reader invocations interleaved over the same table are independent:
\* in every reachable state of every interleaving, what an invocation has
\* produced and the start keys of the fetches it has issued are an initial part
\* of what the same call produces and fetches when it runs alone, and the whole
\* of it once the invocation has ended without a fetch failure.
C12_InterleavedReadersIndependent ==
    \A r \in Invocations :
        rd[r].gpc # "absent" =>
            LET solo == SoloRun(Created(rd[r].kind, CallerRequest(rd[r].kwargs))) IN
            /\ IsPrefix(rd[r].produced, solo.produced)
            /\ IsPrefix(rd[r].fetchLog, solo.fetchLog)
            /\ (rd[r].gpc = "done" /\ rd[r].failure = NoError) =>
                  /\ rd[r].produced = solo.produced
                  /\ rd[r].fetchLog = solo.fetchLog

\* Both invocations are in the middle of their runs, at different pages:
\* invocation 1 has yielded from its second page while invocation 2 has read
\* its first page and is about to fetch the second.
C12_Witness ==
    /\ rd[1].gpc = "yielded" /\ Len(rd[1].fetchLog) = 2
    /\ rd[2].gpc = "fetch" /\ Len(rd[2].fetchLog) = 1
    /\ StartKeyOf(rd[1].kwargs) # 0
    /\ StartKeyOf(rd[2].kwargs) # 0
    /\ Len(rd[1].produced) > Len(rd[2].produced)

\* C13: the first fetch of a reader carries no start key; every later fetch
\* carries the LastEvaluatedKey of the response before it (which therefore had
\* one); when the reader goes to fetch again it has produced every item of the
\* pages read so far; and a sequence that ends by exhaustion ends at a response
\* without a continuation token, never at an empty page that carries one.
C13_StartKeysChain ==
    LET g == rd[1] IN
    /\ g.fetchLog # <<>> => g.fetchLog[1] = 0
    /\ \A k \in 2 .. Len(g.fetchLog) :
          /\ HasMore(pages[g.fetchLog[k - 1] + 1])
          /\ g.fetchLog[k] = pages[g.fetchLog[k - 1] + 1].LastEvaluatedKey
    /\ (g.gpc = "fetch" /\ g.fetchLog # <<>>) =>
          /\ g.produced = ItemsUpTo(Len(g.fetchLog))
          /\ HasMore(pages[g.response])
          /\ StartKeyOf(g.kwargs) = pages[g.response].LastEvaluatedKey
    /\ g.ending = "exhausted" =>
          /\ g.gpc = "done"
          /\ ~HasMore(pages[g.response])
          /\ g.response = g.fetchLog[Len(g.fetchLog)] + 1

\* A three-page table whose middle page is empty but carries a token: the
\* reader went through it and ended at the third page with every item produced.
C13_Witness ==
    /\ Len(pages) = 3
    /\ pages[2].Items = <<>>
    /\ pages[1].Items # <<>>
    /\ pages[3].Items # <<>>
    /\ rd[1].ending = "exhausted"
    /\ rd[1].fetchLog = <<0, 1, 2>>
    /\ rd[1].produced = AllItems

\* C14: when the fetch of page p fails with a non-throughput error, or with
\* throughput-exceeded on the attempt past the retry budget, the failure
\* reaches the consumer and ends the sequence at that point: the reader has
\* produced exactly the items of pages 1..p-1 in order with one successful
\* fetch for each, and afterwards nothing changes any more (no item, no fetch);
\* the step that surfaces the failure leaves the produced items as they are.
C14_FetchFailureEndsSequence ==
    /\ [](rd[1].failure # NoError =>
            /\ rd[1].gpc = "done"
            /\ rd[1].ending = "error"
            /\ rd[1].fetchLog = OneFetchPerPage(Len(rd[1].fetchLog))
            /\ Len(rd[1].fetchLog) < Len(pages)
            /\ rd[1].produced = ItemsUpTo(Len(rd[1].fetchLog))
            /\ (rd[1].failure.code = PTEE => rd[1].fetchFails = nr_of_retries + 2)
            /\ (rd[1].failure.code # PTEE => rd[1].fetchFails <= nr_of_retries + 1))
    /\ [][ /\ rd[1].failure # NoError => rd' = rd
           /\ rd'[1].failure # rd[1].failure =>
                 /\ rd[1].gpc = "fetch"
                 /\ rd'[1].produced = rd[1].produced
                 /\ rd'[1].fetchLog = rd[1].fetchLog ]_vars

\* The fetch of page 2 met throughput-exceeded past the retry budget after the
\* fetch of page 1 had been retried and its items produced.
C14_Witness ==
    /\ rd[1].failure.code = PTEE
    /\ rd[1].ending = "error"
    /\ rd[1].fetchLog = <<0>>
    /\ rd[1].absorbed # "none"
    /\ rd[1].produced = pages[1].Items
    /\ Len(rd[1].produced) = MaxPageSize

\* The batch-write calls made so far by invocation i of the retry-wrapped flush
CallsOf(i) == {k \in DOMAIN wh.sent : wh.sent[k].inv = i}

C16_LimitEndsNormally ==
    LET g == rd[1] IN
    (g.gpc = "done" /\ g.limit >= 1 /\ Len(g.produced) = g.limit) =>
        (g.ending = "stop" /\ g.failure = NoError)

\* C17: when the store hands part of a batch back as unprocessed, that is not
\* an error: nothing is raised, every item added is either accepted or back
\* in the buffer, and a flush that has returned left the buffer empty; and when
\* the store eventually takes what it is offered, a flush-all that is in a
\* batch-write call eventually ends with the writer closed, nothing raised and
\* every item added accepted.
C17_PartialBatchResent ==
    /\ [](/\ wh.raised = 0
          /\ bw.result # "raised"
          /\ 1 .. wh.added = wh.acked \cup Range(bw.items_buffer)
          /\ (bw.flushed /\ bw.pc \in {"idle", "closed"}) => bw.items_buffer = <<>>)
    /\ (bw.pc = "call" /\ bw.caller = "exit")
          ~> (/\ bw.pc = "closed"
              /\ bw.result = "ok"
              /\ bw.items_buffer = <<>>
              /\ wh.acked = 1 .. wh.added)

\* The flush-all has ended with everything accepted after the store handed
\* items back twice in a row: first two of the three items sent, then one of
\* those two.
C17_Witness ==
    /\ bw.pc = "closed"
    /\ bw.result = "ok"
    /\ wh.added >= 3
    /\ wh.acked = 1 .. wh.added
    /\ \E k \in DOMAIN wh.sent :
          /\ k + 2 \in DOMAIN wh.sent
          /\ Len(wh.sent[k].unprocessed) = 2
          /\ wh.sent[k + 1].items = wh.sent[k].unprocessed
          /\ Len(wh.sent[k + 1].unprocessed) = 1
          /\ wh.sent[k + 2].items = wh.sent[k + 1].unprocessed
          /\ wh.sent[k + 2].inv = wh.sent[k].inv

\* C18: the retry state of a reader is fresh for every page fetch: a fetch
\* that has not failed yet runs with attempt 0 and back-off 1 whatever earlier
\* fetches absorbed, the attempt counter of a fetch counts the failures of that
\* fetch only, and throughput-exceeded reaches the consumer only when the one
\* fetch it belongs to has failed nr_of_retries + 2 times itself.
C18_RetryStateFreshPerPage ==
    LET g == rd[1] IN
    /\ g.gpc = "fetch" =>
          /\ g.wrap.attempt = g.fetchFails
          /\ g.fetchFails <= nr_of_retries + 1
          /\ (g.fetchFails = 0 => g.wrap = WrapperStart)
    /\ g.failure.code = PTEE => g.fetchFails = nr_of_retries + 2

\* A read over two pages ended with every item produced although the fetch of
\* each page failed nr_of_retries + 1 times before it succeeded.
C18_Witness ==
    /\ rd[1].ending = "exhausted"
    /\ rd[1].fetchLog = <<0, 1>>
    /\ rd[1].absorbed = "budget"
    /\ rd[1].produced = AllItems
    /\ Len(rd[1].produced) > MaxPageSize

\* C19: whenever an add has returned successfully the buffer holds fewer items
\* than the flush_amount the writer was constructed with, and if the add ran a
\* flush the buffer is empty; an add that brings the buffer to flush_amount
\* enters the flush before it returns (the next thing that happens is a
\* batch-write call), and an add that leaves the buffer below flush_amount
\* starts no flush and no call: it returns at once with the request appended
\* at the buffer's tail.
C19_AddKeepsBufferBelowFlushAmount ==
    /\ []((bw.pc = "idle" /\ bw.caller = "put_item" /\ bw.result = "ok") =>
            /\ Len(bw.items_buffer) < wh.configured
            /\ (bw.flushed => bw.items_buffer = <<>>))
    /\ [][ wh.added' = wh.added + 1 =>
             /\ bw'.items_buffer = Append(bw.items_buffer, wh.added')
             /\ wh'.sent = wh.sent
             /\ IF Len(bw.items_buffer) + 1 < wh.configured
                THEN /\ bw'.pc = "idle"
                     /\ bw'.result = "ok"
                     /\ ~bw'.flushed
                     /\ bw'.inv = bw.inv
                ELSE /\ bw'.pc = "call"
                     /\ bw'.inv = bw.inv + 1 ]_vars

\* After an automatic flush of three items, two more adds have returned
\* without a flush and without a call: the two requests sit in the buffer.
C19_Witness ==
    /\ bw.pc = "idle"
    /\ bw.caller = "put_item"
    /\ bw.result = "ok"
    /\ ~bw.flushed
    /\ wh.configured = 3
    /\ wh.added = 5
    /\ bw.items_buffer = <<4, 5>>
    /\ Len(wh.sent) = 1
    /\ wh.acked = {1, 2, 3}

\* C20: the scan reader and the query reader are the same pagination state
\* machine: called with the same request over the same table, and with no
\* fetch failure reaching either consumer, the two have at their end produced
\* the same items, issued the same fetches with the same start keys, and ended
\* the same way (both by exhaustion or both at the limit check).
C20_ScanAndQuerySameMachine ==
    (/\ rd[1].kind # rd[2].kind
     /\ CallerRequest(rd[1].kwargs) = CallerRequest(rd[2].kwargs)
     /\ rd[1].gpc = "done" /\ rd[1].failure = NoError
     /\ rd[2].gpc = "done" /\ rd[2].failure = NoError)
        => /\ rd[1].produced = rd[2].produced
           /\ rd[1].fetchLog = rd[2].fetchLog
           /\ (rd[1].ending = "exhausted") = (rd[2].ending = "exhausted")

====
